---------------------------- MODULE Spec2Model ----------------------------
(***************************************************************************)
(* A model of src/kinetics/Reaction.cpp (Cantera): the reaction-equation   *)
(* parser, the three-body / falloff collision-partner resolution, the      *)
(* isThreeBody classifier, the newReaction dispatch and the reaction-order *)
(* validation of Reaction::check.                                          *)
(*                                                                         *)
(* Representation.                                                         *)
(*  - std::string is a TLA+ string; Len, \o and SubSeq act on it as size(),*)
(*    operator+ and substr() do.                                           *)
(*  - double is a fixed-point integer counting halves: ONE stands for 1.0, *)
(*    so 1.5 is 3 and -1 is -2.  Sums and differences of such values are   *)
(*    exact in IEEE doubles, as they are here.                             *)
(*  - Composition (std::map<std::string,double>) is a function whose       *)
(*    DOMAIN is the key set; iteration order is the key order StrLess.     *)
(*  - AnyMap is a function on its keys; hasKey(k) is k \in DOMAIN node.    *)
(*  - An equation is given as the token vector tokenizeString produces.    *)
(*  - size_t npos is NPOS; the loop index i of parseReactionEquation is at *)
(*    least 1, so i-2 and i-3 wrap to npos exactly when they equal NPOS.   *)
(*  - A function that can throw returns [R |-> object as the throw leaves  *)
(*    it, err |-> the error or NoError].                                   *)
(* The rate object (m_rate, newReactionRate, ReactionRate::check) is an    *)
(* external collaborator and is not modelled.                              *)
(***************************************************************************)
EXTENDS Integers, Sequences, FiniteSets, TLC

VARIABLES
    R,       \* the Reaction object under construction / in use (NoObject if none)
    hist,    \* the last operation: its name, inputs, the object before it, its result
    calls    \* number of setter calls applied to R since it was constructed

vars == <<R, hist, calls>>

-----------------------------------------------------------------------------
(* Bounds of the model *)

\* terms of an equation handed to the free parser (both sides together)
MaxTerms == 3
\* setEquation / setParameters calls applied to one object
MaxCalls == 2
\* largest whole stoichiometric coefficient of a directly built Composition
MaxStoich == 2

\* documents in the list handed to getReactions
MaxItems == 2

-----------------------------------------------------------------------------
(* Scalars and strings *)

\* the double 1.0 in halves
ONE == 2

\* size_t npos
NPOS == -1

NoError == "none"

Abs(x) == IF x < 0 THEN -x ELSE x

\* trunc(double): rounds toward zero
trunc(x) == IF x >= 0 THEN (x \div ONE) * ONE ELSE -((-x \div ONE) * ONE)

\* boost::algorithm::starts_with / ends_with
starts_with(s, p) == Len(s) >= Len(p) /\ SubSeq(s, 1, Len(p)) = p
ends_with(s, p) == Len(s) >= Len(p) /\ SubSeq(s, Len(s) - Len(p) + 1, Len(s)) = p

\* std::string::substr(pos, n), pos counted from 0
substr(s, pos, n) == SubSeq(s, pos + 1, pos + n)

CharAt(s, i) == SubSeq(s, i, i)

\* character codes (ASCII) of the characters that occur in keys
CharCode(c) ==
    CASE c = "(" -> 40 [] c = ")" -> 41 [] c = "+" -> 43 [] c = "-" -> 45
      [] c = "." -> 46 [] c = "0" -> 48 [] c = "1" -> 49 [] c = "2" -> 50
      [] c = "3" -> 51 [] c = "4" -> 52 [] c = "5" -> 53 [] c = "6" -> 54
      [] c = "7" -> 55 [] c = "8" -> 56 [] c = "9" -> 57 [] c = "A" -> 65
      [] c = "B" -> 66 [] c = "C" -> 67 [] c = "H" -> 72 [] c = "M" -> 77
      [] c = "O" -> 79 [] c = "R" -> 82 [] c = "X" -> 88
      [] OTHER -> 127

\* std::less<std::string>: lexicographic order, the order of a std::map's keys
RECURSIVE StrLessFrom(_, _, _)
StrLessFrom(a, b, i) ==
    IF i > Len(b) THEN FALSE
    ELSE IF i > Len(a) THEN TRUE
    ELSE IF CharCode(CharAt(a, i)) # CharCode(CharAt(b, i))
         THEN CharCode(CharAt(a, i)) < CharCode(CharAt(b, i))
    ELSE StrLessFrom(a, b, i + 1)

StrLess(a, b) == StrLessFrom(a, b, 1)

IsDigit(c) == c \in {"0", "1", "2", "3", "4", "5", "6", "7", "8", "9"}

DigitVal(c) == CharCode(c) - CharCode("0")

RECURSIVE AllDigits(_)
AllDigits(s) == Len(s) = 0 \/ (IsDigit(CharAt(s, 1)) /\ AllDigits(SubSeq(s, 2, Len(s))))

RECURSIVE DigitsVal(_, _)
DigitsVal(s, acc) ==
    IF Len(s) = 0 THEN acc
    ELSE DigitsVal(SubSeq(s, 2, Len(s)), 10 * acc + DigitVal(CharAt(s, 1)))

\* position of the first "." in s, or 0
RECURSIVE DotPos(_, _)
DotPos(s, i) ==
    IF i > Len(s) THEN 0 ELSE IF CharAt(s, i) = "." THEN i ELSE DotPos(s, i + 1)

\* fpValueCheck(string) -> double, throwing on a string that is no number.
\* Numerals are [-]digits[.digits]; the fraction digits are "0" or "5" (the
\* grid of halves).
fpValueCheck(s) ==
    LET neg  == Len(s) > 0 /\ CharAt(s, 1) = "-"
        body == IF neg THEN SubSeq(s, 2, Len(s)) ELSE s
        dot  == DotPos(body, 1)
        ip   == IF dot = 0 THEN body ELSE SubSeq(body, 1, dot - 1)
        fp   == IF dot = 0 THEN "" ELSE SubSeq(body, dot + 1, Len(body))
        ok   == /\ Len(ip) > 0 /\ AllDigits(ip)
                /\ (dot # 0 => fp \in {"0", "5"})
        mag  == ONE * DigitsVal(ip, 0) + (IF fp = "5" THEN 1 ELSE 0)
    IN  IF ok THEN [err |-> NoError, val |-> IF neg THEN -mag ELSE mag]
        ELSE [err |-> "not a number", val |-> 0]

RECURSIVE NatStr(_)
NatStr(n) ==
    LET d == SubSeq("0123456789", (n % 10) + 1, (n % 10) + 1)
    IN  IF n < 10 THEN d ELSE NatStr(n \div 10) \o d

\* std::ostream << double (default format) for a value on the grid of halves
fmtDouble(x) ==
    (IF x < 0 THEN "-" ELSE "") \o NatStr(Abs(x) \div ONE)
        \o (IF Abs(x) % ONE = 1 THEN ".5" ELSE "")

-----------------------------------------------------------------------------
(* Composition: std::map<std::string, double> *)

EmptyMap == [k \in {} |-> 0]

\* m.count(k)
count(m, k) == IF k \in DOMAIN m THEN 1 ELSE 0

\* mutant of MapAdd: "=" written for "+="
MapAddAssigns(m, k, v) == [x \in DOMAIN m \cup {k} |-> IF x = k THEN v ELSE m[x]]

\* m[k] += v  (operator[] inserts 0.0 for a new key)
MapAdd(m, k, v) ==
    [x \in DOMAIN m \cup {k} |-> IF x = k THEN (IF k \in DOMAIN m THEN m[k] ELSE 0) + v
                                 ELSE m[x]]

\* m[k] = v
MapSet(m, k, v) == [x \in DOMAIN m \cup {k} |-> IF x = k THEN v ELSE m[x]]

\* m.emplace(k, v): inserts only when the key is new
MapEmplace(m, k, v) == IF k \in DOMAIN m THEN m ELSE MapSet(m, k, v)

\* m.erase(k)
MapErase(m, k) == [x \in DOMAIN m \ {k} |-> m[x]]

\* m.begin()->first, for a non-empty map
MapBegin(m) == CHOOSE k \in DOMAIN m : \A o \in DOMAIN m \ {k} : StrLess(k, o)


-----------------------------------------------------------------------------
(* The objects *)

\* Kinetics, as far as Reaction.cpp consults it: the species list and the
\* dimension of the reaction phase.  NullKin is the null pointer.
Kinetics(species, nDim) == [present |-> TRUE, species |-> species, nDim |-> nDim]

NullKin == [present |-> FALSE, species |-> {}, nDim |-> 3]

\* kin.kineticsSpeciesIndex(name) == npos
speciesAbsent(kin, name) == name \notin kin.species

\* ThirdBody::ThirdBody(double default_eff = 1.0)
ThirdBody ==
    [present |-> TRUE, default_efficiency |-> ONE, efficiencies |-> EmptyMap,
     specified_collision_partner |-> FALSE, mass_action |-> TRUE]

\* a null m_third_body pointer
NoThirdBody == [ThirdBody EXCEPT !.present = FALSE]

\* Reaction::Reaction()
Reaction ==
    [rtype |-> "elementary", reactants |-> EmptyMap, products |-> EmptyMap,
     reversible |-> TRUE, duplicate |-> FALSE,
     allow_nonreactant_orders |-> FALSE, allow_negative_orders |-> FALSE,
     m_valid |-> TRUE, orders |-> EmptyMap, id |-> "", input |-> EmptyMap,
     m_third_body |-> NoThirdBody]

\* ThreeBodyReaction::ThreeBodyReaction()
ThreeBodyReaction ==
    [Reaction EXCEPT !.rtype = "three-body", !.m_third_body = ThirdBody]

\* FalloffReaction::FalloffReaction()
FalloffReaction ==
    [Reaction EXCEPT !.rtype = "falloff",
                     !.m_third_body = [ThirdBody EXCEPT !.mass_action = FALSE]]

\* no object: nothing constructed, or the construction threw
NoObject == [Reaction EXCEPT !.rtype = "none"]

-----------------------------------------------------------------------------
(* parseReactionEquation *)

\* tokens[i] of the std::vector, i counted from 0
Tok(tokens, i) == tokens[i + 1]

IsSeparator(tok) == tok = "<=>" \/ tok = "=" \/ tok = "=>"

\* the validity test of one parsed term (true: the term invalidates R)
termInvalid(kin, species, stoich) ==
    \/ ~kin.present
    \/ (speciesAbsent(kin, species) /\ stoich # -ONE /\ species # "M")

\* a term "coefficient species": v is what fpValueCheck made of the coefficient
numberedTerm(v, species) == [err |-> v.err, species |-> species, stoich |-> v.val]

\* the species name and coefficient of the term that ends before tokens[i]
termOf(tokens, i, last_used) ==
    LET species == Tok(tokens, i - 1)
    IN  IF last_used # NPOS /\ Tok(tokens, last_used) = "(+"
        THEN [err |-> NoError, species |-> "(+" \o species, stoich |-> -ONE]
        ELSE IF last_used = i - 1 /\ starts_with(species, "(+") /\ ends_with(species, ")")
        THEN [err |-> NoError, species |-> species, stoich |-> -ONE]
        ELSE IF last_used = i - 2
        THEN [err |-> NoError, species |-> species, stoich |-> ONE]
        ELSE IF last_used = i - 3
        THEN numberedTerm(fpValueCheck(Tok(tokens, i - 2)), species)
        ELSE [err |-> "Error parsing reaction string", species |-> species, stoich |-> 0]

\* tokens[i] ends a term
isDelimiter(tok) == tok = "+" \/ starts_with(tok, "(+") \/ IsSeparator(tok)

\* setValid(false) if the term asks for it, and the term added to its side
addTerm(Rc, t, reactants, kin) ==
    [Rc EXCEPT
        !.m_valid = IF termInvalid(kin, t.species, t.stoich) THEN FALSE ELSE @,
        !.reactants = IF reactants THEN MapAdd(@, t.species, t.stoich) ELSE @,
        !.products = IF reactants THEN @ ELSE MapAdd(@, t.species, t.stoich)]

\* "Tokens after this point are part of the products string"
setDirection(Rc, tok) ==
    IF tok = "<=>" \/ tok = "=" THEN [Rc EXCEPT !.reversible = TRUE]
    ELSE IF tok = "=>" THEN [Rc EXCEPT !.reversible = FALSE]
    ELSE Rc

RECURSIVE parseLoop(_, _, _, _)
RECURSIVE parseStep(_, _, _, _, _, _)

\* one pass of the for loop at index i: tok = tokens[i], t the term before it;
\* st = [R, last_used, reactants, err]
parseStep(st, tokens, i, kin, tok, t) ==
    IF isDelimiter(tok) /\ t.err # NoError
    THEN [st EXCEPT !.err = t.err]
    ELSE parseLoop([R |-> setDirection(IF isDelimiter(tok)
                                       THEN addTerm(st.R, t, st.reactants, kin)
                                       ELSE st.R, tok),
                    last_used |-> IF isDelimiter(tok) THEN i ELSE st.last_used,
                    reactants |-> st.reactants /\ ~IsSeparator(tok),
                    err |-> NoError],
                   tokens, i + 1, kin)

\* the for loop, from index i on
parseLoop(st, tokens, i, kin) ==
    IF i >= Len(tokens) THEN st
    ELSE parseStep(st, tokens, i, kin, Tok(tokens, i), termOf(tokens, i, st.last_used))

\* what the loop leaves: the reaction, and the error if it threw
parsed(st) == [R |-> st.R, err |-> st.err]

\* parseReactionEquation(R, equation, reactionNode, kin); `equation` is the
\* token vector of tokenizeString(equation, tokens)
parseReactionEquation(Rin, equation, kin) ==
    parsed(parseLoop([R |-> Rin, last_used |-> NPOS, reactants |-> TRUE,
                      err |-> NoError], Append(equation, "+"), 1, kin))

-----------------------------------------------------------------------------
(* Equations as inputs *)

\* A term of an equation: a species with or without a written coefficient.
Term(bare, coef, sp) == [bare |-> bare, coef |-> coef, sp |-> sp]

TermTokens(t) == IF t.bare THEN <<t.sp>> ELSE <<fmtDouble(t.coef), t.sp>>

\* "t1 + t2 + ... + tn"
RECURSIVE SideTokens(_)
SideTokens(ts) ==
    IF Len(ts) = 0 THEN <<>>
    ELSE IF Len(ts) = 1 THEN TermTokens(ts[1])
    ELSE TermTokens(ts[1]) \o <<"+">> \o SideTokens(Tail(ts))

\* A falloff bracket: none, "(+X)" as one token, or "(+ X)" as two.
BracketTokens(b) ==
    IF b.form = "none" THEN <<>>
    ELSE IF b.form = "joined" THEN <<"(+" \o b.sp \o ")">>
    ELSE <<"(+", b.sp \o ")">>

NoBracket == [form |-> "none", sp |-> ""]

\* An equation: its terms and bracket on either side of the separator
EquationTokens(e) ==
    SideTokens(e.lhs) \o BracketTokens(e.lbr) \o <<e.sep>>
        \o SideTokens(e.rhs) \o BracketTokens(e.rbr)

\* sequences of 1..n elements of S
SeqsUpTo(S, n) == UNION {[1..k -> S] : k \in 1..n}

-----------------------------------------------------------------------------
(* Collision-partner resolution *)

\* Outcomes of dereferencing an end() iterator (undefined behaviour): the
\* process dies, or the write lands outside the map and the call goes on.
UBOutcomes == {"crash", "silent"}

\* the species of `reactants` that `products` holds too
Shared(Rin) == DOMAIN Rin.reactants \cap DOMAIN Rin.products

\* the loop of detectEfficiencies: efficiencies[reac.first] = 1. for each
\* reactant that is a product as well
markShared(Rin) ==
    [x \in DOMAIN Rin.m_third_body.efficiencies \cup Shared(Rin) |->
        IF x \in Shared(Rin) THEN ONE ELSE Rin.m_third_body.efficiencies[x]]

\* "adjust reactant coefficients": coefficient c of the partner on one side
\* (TRUE: the entry is erased)
erasesPartner(c) == trunc(c) = ONE

\* find(sp) == end() is undefined behaviour; where the call goes on, the map
\* is as it was
adjustSide(comp, sp) ==
    IF sp \notin DOMAIN comp THEN comp
    ELSE IF erasesPartner(comp[sp]) THEN MapErase(comp, sp)
    ELSE [comp EXCEPT ![sp] = @ - ONE]

\* detectEfficiencies from line 575 on: sp is efficiencies.begin()->first
adjustPartner(R2, sp, ub) ==
    IF (sp \notin DOMAIN R2.reactants \/ sp \notin DOMAIN R2.products) /\ ub = "crash"
    THEN [R |-> R2, ret |-> TRUE, err |-> "undefined behaviour"]
    ELSE [R |-> [R2 EXCEPT !.reactants = adjustSide(@, sp),
                            !.products = adjustSide(@, sp)],
          err |-> NoError, ret |-> TRUE]

\* mutant of countPartners: "> 1" written as "> 0" after the empty case
countPartners_OneTooMany(R1, n, ub) ==
    IF n = 0 THEN [R |-> R1, err |-> NoError, ret |-> FALSE]
    ELSE [R |-> R1, ret |-> FALSE,
          err |-> "Found more than one explicitly specified collision partner"]

\* detectEfficiencies after its first loop; R1 holds the marked efficiencies
countPartners(R1, n, ub) ==
    IF n = 0 THEN [R |-> R1, err |-> NoError, ret |-> FALSE]
    ELSE IF n > 1
    THEN [R |-> R1, ret |-> FALSE,
          err |-> "Found more than one explicitly specified collision partner"]
    ELSE adjustPartner([R1 EXCEPT !.m_third_body.default_efficiency = 0,
                                  !.m_third_body.specified_collision_partner = TRUE],
                       MapBegin(R1.m_third_body.efficiencies), ub)

\* ThreeBodyReaction::detectEfficiencies; ub picks the outcome of the
\* undefined behaviour when the single efficiency entry is on neither side
detectEfficiencies(Rin, ub) ==
    countPartners([Rin EXCEPT !.m_third_body.efficiencies = markShared(Rin)],
                  Cardinality(DOMAIN markShared(Rin)), ub)

\* Reaction::setEquation
Reaction_setEquation(Rin, equation, kin) == parseReactionEquation(Rin, equation, kin)

\* mutant of genericM: the test taken the wrong way round
genericM_Inverted(Rp) == count(Rp.reactants, "M") # 1 \/ count(Rp.products, "M") # 1

\* the condition under which ThreeBodyReaction::setEquation strips "M" itself
genericM(Rp) == ~(count(Rp.reactants, "M") # 1 \/ count(Rp.products, "M") # 1)

\* lines 602-607: d is what detectEfficiencies did
partnerOrThrow(d) ==
    IF d.err # NoError THEN [R |-> d.R, err |-> d.err]
    ELSE IF ~d.ret THEN [R |-> d.R, err |-> "does not contain third body 'M'"]
    ELSE [R |-> d.R, err |-> NoError]

\* ThreeBodyReaction::setEquation after the call of Reaction::setEquation,
\* whose outcome is p
resolveThreeBody(p, ub) ==
    IF p.err # NoError THEN p
    ELSE IF ~genericM(p.R) THEN partnerOrThrow(detectEfficiencies(p.R, ub))
    ELSE [R |-> [p.R EXCEPT !.reactants = MapErase(@, "M"),
                            !.products = MapErase(@, "M")],
          err |-> NoError]

\* ThreeBodyReaction::setEquation
ThreeBodyReaction_setEquation(Rin, equation, kin, ub) ==
    resolveThreeBody(Reaction_setEquation(Rin, equation, kin), ub)

\* the reactants that FalloffReaction::setEquation takes for a third body
bracketKeys(comp) == {k \in DOMAIN comp : comp[k] = -ONE /\ starts_with(k, "(+")}

\* the first of them in the order of the map
firstKey(cands) == CHOOSE k \in cands : \A o \in cands \ {k} : StrLess(k, o)

\* the explicit-partner branch of FalloffReaction::setEquation
falloffPartner(tb, third_body) ==
    [tb EXCEPT !.default_efficiency = 0,
               !.efficiencies = MapEmplace(@, third_body, ONE),
               !.specified_collision_partner = TRUE]

\* FalloffReaction::setEquation from line 770 on
removeDummy(Rp, third_body_str, third_body) ==
    [Rp EXCEPT
        !.reactants = MapErase(@, third_body_str),
        !.products = MapErase(@, third_body_str),
        !.m_third_body = IF third_body = "M"
                         THEN [@ EXCEPT !.specified_collision_partner = FALSE]
                         ELSE falloffPartner(@, third_body)]

\* FalloffReaction::setEquation from line 758 on, the loop having found
\* third_body_str
matchThirdBody(Rp, third_body_str) ==
    IF count(Rp.products, third_body_str) = 0
    THEN [R |-> Rp, err |-> "Unable to match third body in reactants and products"]
    ELSE [R |-> removeDummy(Rp, third_body_str,
                            substr(third_body_str, 2, Len(third_body_str) - 3)),
          err |-> NoError]

\* FalloffReaction::setEquation after the call of Reaction::setEquation,
\* whose outcome is p
resolveFalloff(p) ==
    IF p.err # NoError THEN p
    ELSE IF bracketKeys(p.R.reactants) = {}
    THEN [R |-> p.R, err |-> "Reactants do not contain a pressure-dependent third body"]
    ELSE matchThirdBody(p.R, firstKey(bracketKeys(p.R.reactants)))

\* FalloffReaction::setEquation
FalloffReaction_setEquation(Rin, equation, kin) ==
    resolveFalloff(Reaction_setEquation(Rin, equation, kin))

\* the virtual call setEquation(equation, kin)
setEquation(Rin, equation, kin, ub) ==
    IF Rin.rtype = "three-body" THEN ThreeBodyReaction_setEquation(Rin, equation, kin, ub)
    ELSE IF Rin.rtype = "falloff" THEN FalloffReaction_setEquation(Rin, equation, kin)
    ELSE Reaction_setEquation(Rin, equation, kin)

-----------------------------------------------------------------------------
(* setParameters *)

hasKey(node, k) == k \in DOMAIN node

\* AnyMap::getBool / getString / getDouble with a default
getValue(node, k, default) == IF hasKey(node, k) THEN node[k] ELSE default

\* the orders loop of Reaction::setParameters
setOrders(Rin, node, kin) ==
    IF ~hasKey(node, "orders") THEN Rin
    ELSE [Rin EXCEPT
            !.orders = [x \in DOMAIN Rin.orders \cup DOMAIN node["orders"] |->
                          IF x \in DOMAIN node["orders"] THEN node["orders"][x]
                          ELSE Rin.orders[x]],
            !.m_valid = IF \E x \in DOMAIN node["orders"] : speciesAbsent(kin, x)
                        THEN FALSE ELSE @]

\* Reaction::setParameters after its call of setEquation, whose outcome is e
ordersAndFlags(e, node, kin) ==
    IF e.err # NoError THEN e
    ELSE [R |-> [setOrders(e.R, node, kin) EXCEPT
                   !.id = getValue(node, "id", ""),
                   !.duplicate = getValue(node, "duplicate", FALSE),
                   !.allow_negative_orders = getValue(node, "negative-orders", FALSE),
                   !.allow_nonreactant_orders =
                       getValue(node, "nonreactant-orders", FALSE)],
          err |-> NoError]

\* Reaction::setParameters (with the virtual setEquation of the object)
Reaction_setParameters(Rin, node, kin, ub) ==
    IF DOMAIN node = {} THEN [R |-> Rin, err |-> NoError]
    ELSE ordersAndFlags(setEquation([Rin EXCEPT !.input = node], node["equation"],
                                    kin, ub),
                        node, kin)

\* ThirdBody::setEfficiencies
ThirdBody_setEfficiencies(tb, node) ==
    [tb EXCEPT !.default_efficiency = getValue(node, "default-efficiency", ONE),
               !.efficiencies = IF hasKey(node, "efficiencies")
                                THEN node["efficiencies"] ELSE @]

\* lines 621-623 and 736-738: b is the outcome of Reaction::setParameters
efficienciesUnlessSpecified(b, node) ==
    IF b.err # NoError THEN b
    ELSE IF ~b.R.m_third_body.specified_collision_partner
    THEN [R |-> [b.R EXCEPT !.m_third_body = ThirdBody_setEfficiencies(@, node)],
          err |-> NoError]
    ELSE b

\* ThreeBodyReaction::setParameters and FalloffReaction::setParameters
ThirdBody_setParameters(Rin, node, kin, ub) ==
    IF DOMAIN node = {} THEN [R |-> Rin, err |-> NoError]
    ELSE efficienciesUnlessSpecified(Reaction_setParameters(Rin, node, kin, ub), node)

\* the virtual call setParameters(node, kin)
setParameters(Rin, node, kin, ub) ==
    IF Rin.rtype \in {"three-body", "falloff"}
    THEN ThirdBody_setParameters(Rin, node, kin, ub)
    ELSE Reaction_setParameters(Rin, node, kin, ub)

-----------------------------------------------------------------------------
(* Reaction::check *)

nonreactantOrder(Rin) ==
    ~Rin.allow_nonreactant_orders
        /\ \E s \in DOMAIN Rin.orders : s \notin DOMAIN Rin.reactants

negativeOrder(Rin) ==
    ~Rin.allow_negative_orders /\ \E s \in DOMAIN Rin.orders : Rin.orders[s] < 0

\* mutant of reversibleWithOrders: the relaxation flags waive the test
reversibleWithOrders_Waived(Rin) ==
    /\ Rin.reversible /\ DOMAIN Rin.orders # {}
    /\ ~(Rin.allow_nonreactant_orders /\ Rin.allow_negative_orders)

\* the last test of Reaction::check
reversibleWithOrders(Rin) == Rin.reversible /\ DOMAIN Rin.orders # {}

\* Reaction::check, up to the call of the rate's own check
Reaction_check(Rin) ==
    IF nonreactantOrder(Rin) THEN "Reaction order specified for non-reactant species"
    ELSE IF negativeOrder(Rin) THEN "Negative reaction order specified"
    ELSE IF reversibleWithOrders(Rin)
    THEN "Reaction orders may only be given for irreversible reactions"
    ELSE NoError

OrderErrors ==
    {"Reaction order specified for non-reactant species",
     "Negative reaction order specified",
     "Reaction orders may only be given for irreversible reactions"}

-----------------------------------------------------------------------------
(* isThreeBody and newReaction *)

\* Outcomes of static_cast<size_t>(double) on a negative value (undefined
\* behaviour): the two's-complement wrap of x86-64 builds, the saturation to
\* 0 of AArch64 builds.  A wrapped value is kept as the negative integer it
\* is congruent to modulo 2^64; the sums below stay far from 2^64, so "== 3"
\* modulo 2^64 is "= 3" here.
CastModes == {"wrap", "saturate"}

castSizeT(x, cast) ==
    IF x >= 0 THEN x \div ONE
    ELSE IF cast = "wrap" THEN -((-x) \div ONE)
    ELSE 0

isInteger(x) == trunc(x) = x

RECURSIVE sumCast(_, _, _)
sumCast(comp, keys, cast) ==
    IF keys = {} THEN 0
    ELSE LET k == CHOOSE k \in keys : TRUE
         IN  castSizeT(comp[k], cast) + sumCast(comp, keys \ {k}, cast)

\* the candidates counted by `found`
candidates(Rin) ==
    {s \in Shared(Rin) : isInteger(Rin.reactants[s]) /\ isInteger(Rin.products[s])}

\* mutant of isThreeBody: "&&" written for "||" in the return
isThreeBody_BothSides(Rin, cast) ==
    LET nreac == sumCast(Rin.reactants, DOMAIN Rin.reactants, cast)
        nprod == sumCast(Rin.products, DOMAIN Rin.products, cast)
    IN  IF Cardinality(candidates(Rin)) # 1 THEN FALSE
        ELSE IF \E s \in DOMAIN Rin.reactants : ~isInteger(Rin.reactants[s]) THEN FALSE
        ELSE IF \E s \in DOMAIN Rin.products : ~isInteger(Rin.products[s]) THEN FALSE
        ELSE nreac = 3 /\ nprod = 3

\* isThreeBody(R)
isThreeBody(Rin, cast) ==
    LET nreac == sumCast(Rin.reactants, DOMAIN Rin.reactants, cast)
        nprod == sumCast(Rin.products, DOMAIN Rin.products, cast)
    IN  IF Cardinality(candidates(Rin)) # 1 THEN FALSE
        ELSE IF \E s \in DOMAIN Rin.reactants : ~isInteger(Rin.reactants[s]) THEN FALSE
        ELSE IF \E s \in DOMAIN Rin.products : ~isInteger(Rin.products[s]) THEN FALSE
        ELSE nreac = 3 \/ nprod = 3

\* ReactionFactory::exists(type): the variants of this model
Registered == {"elementary", "three-body", "falloff"}

\* lines 876-881: p is the trial parse; its error is the error of the call
detectedType(p, cast) ==
    [type |-> IF p.err = NoError /\ isThreeBody(p.R, cast)
              THEN "three-body" ELSE "elementary",
     err |-> p.err]

\* mutant of selectType: the trial parse is made before the declared type
\* is looked at, and wins
selectType_DetectsFirst(node, kin, cast) ==
    IF kin.nDim = 3
          /\ detectedType(parseReactionEquation(Reaction, node["equation"], kin),
                          cast).type = "three-body"
    THEN [type |-> "three-body", err |-> NoError]
    ELSE IF hasKey(node, "type") THEN [type |-> node["type"], err |-> NoError]
    ELSE IF kin.nDim = 3
    THEN detectedType(parseReactionEquation(Reaction, node["equation"], kin), cast)
    ELSE [type |-> "elementary", err |-> NoError]

\* the type newReaction selects; err is the error of the trial parse
selectType(node, kin, cast) ==
    IF hasKey(node, "type") THEN [type |-> node["type"], err |-> NoError]
    ELSE IF kin.nDim = 3
    THEN detectedType(parseReactionEquation(Reaction, node["equation"], kin), cast)
    ELSE [type |-> "elementary", err |-> NoError]

-----------------------------------------------------------------------------
(* calculateRateCoeffUnits *)

\* UnitStack({}): no entry at all
EmptyStack == <<>>

\* UnitStack(standardConcentrationUnits) after join(1.) and
\* update(Units(1.0, 0, 0, -1), 1.): the standard-concentration unit to the
\* power `concentration` and the unit 1/s to the power `perSecond`
UnitStack(concentration, perSecond) ==
    [concentration |-> concentration, perSecond |-> perSecond]

\* UnitStack::join(exponent) and, in a single-phase mechanism,
\* UnitStack::update(phase.standardConcentrationUnits(), exponent)
join(stack, exponent) == [stack EXCEPT !.concentration = @ + exponent]

\* the reactants whose coefficient enters the units
countedReactants(Rin) ==
    {sp \in DOMAIN Rin.reactants :
        ~(sp = "M" \/ starts_with(sp, "(+")) /\ sp \notin DOMAIN Rin.orders}

RECURSIVE total(_, _)
total(comp, keys) ==
    IF keys = {} THEN 0
    ELSE LET k == CHOOSE k \in keys : TRUE
         IN  comp[k] + total(comp, keys \ {k})

\* mutant of thirdBodyUnits: only a mass-action third body counts
thirdBodyUnits_MassActionOnly(Rin, stack) ==
    IF Rin.m_third_body.present /\ Rin.m_third_body.mass_action
    THEN join(stack, -ONE) ELSE stack

\* lines 314-317
thirdBodyUnits(Rin, stack) ==
    IF Rin.m_third_body.present THEN join(stack, -ONE) ELSE stack

\* Reaction::calculateRateCoeffUnits(kin): the stack returned, or the error
\* of kin.speciesPhase for a species the mechanism lacks
calculateRateCoeffUnits(Rin, kin) ==
    IF ~Rin.m_valid THEN [units |-> EmptyStack, err |-> NoError]
    ELSE IF \E sp \in DOMAIN Rin.orders \cup countedReactants(Rin) :
                speciesAbsent(kin, sp)
    THEN [units |-> EmptyStack, err |-> "unknown species"]
    ELSE [units |-> thirdBodyUnits(Rin,
                      join(join(UnitStack(ONE, ONE),
                                -total(Rin.orders, DOMAIN Rin.orders)),
                           -total(Rin.reactants, countedReactants(Rin)))),
          err |-> NoError]

-----------------------------------------------------------------------------
(* The constructors from a document *)

\* Reaction::Reaction(node, kin) from the result `units` of
\* calculateRateCoeffUnits on: newReactionRate is not reached when the phase
\* lookup threw, and check() follows it
rateThenCheck(Rin, units) ==
    IF units.err # NoError THEN [R |-> Rin, err |-> units.err]
    ELSE [R |-> Rin, err |-> Reaction_check(Rin)]

\* Reaction::Reaction(node, kin) after its call of setParameters, whose
\* outcome is sp
rateAndCheck(sp, node, kin) ==
    IF sp.err # NoError THEN sp
    ELSE IF kin.nDim # 3 /\ ~hasKey(node, "rate-constant")
            /\ ~hasKey(node, "sticking-coefficient")
    THEN [R |-> sp.R, err |-> "Unable to infer interface reaction type."]
    ELSE rateThenCheck(sp.R, calculateRateCoeffUnits(sp.R, kin))

\* Reaction::Reaction(const AnyMap& node, const Kinetics& kin)
Reaction_fromNode(node, kin, ub) ==
    rateAndCheck(Reaction_setParameters(Reaction, node, kin, ub), node, kin)

\* the constructors of the third-body variants after setParameters, whose
\* outcome is sp: the rate is built from calculateRateCoeffUnits(kin)
rateOf(sp, kin) ==
    IF sp.err # NoError THEN sp
    ELSE [R |-> sp.R, err |-> calculateRateCoeffUnits(sp.R, kin).err]

\* ThreeBodyReaction::ThreeBodyReaction(node, kin) and
\* FalloffReaction::FalloffReaction(node, kin)
ThirdBody_fromNode(fresh, node, kin, ub) ==
    rateOf(ThirdBody_setParameters(fresh, node, kin, ub), kin)

\* ReactionFactory::create(type, rxn_node, kin)
create(type, node, kin, ub) ==
    IF type = "three-body" THEN ThirdBody_fromNode(ThreeBodyReaction, node, kin, ub)
    ELSE IF type = "falloff" THEN ThirdBody_fromNode(FalloffReaction, node, kin, ub)
    ELSE Reaction_fromNode(node, kin, ub)

\* what newReaction returns: the object create built, or none on a throw
built(c, type) ==
    IF c.err # NoError THEN [R |-> NoObject, err |-> c.err, type |-> type]
    ELSE [R |-> c.R, err |-> NoError, type |-> type]

\* newReaction from line 884 on; sel is the selected type
createSelected(sel, node, kin, ub) ==
    IF sel.err # NoError THEN [R |-> NoObject, err |-> sel.err, type |-> sel.type]
    ELSE IF sel.type \notin Registered
    THEN [R |-> NoObject, err |-> "Unknown reaction type", type |-> sel.type]
    ELSE built(create(sel.type, node, kin, ub), sel.type)

\* newReaction(const AnyMap& rxn_node, const Kinetics& kin); a throw leaves
\* no object
newReaction(node, kin, cast, ub) ==
    createSelected(selectType(node, kin, cast), node, kin, ub)

-----------------------------------------------------------------------------
(* equation(): rendering *)

\* Reaction::reactantString / Reaction::productString on the map comp, the
\* keys in `keys` still to be written
RECURSIVE sideString(_, _)
sideString(comp, keys) ==
    IF keys = {} THEN ""
    ELSE LET k == firstKey(keys)
         IN  (IF comp[k] # ONE THEN fmtDouble(comp[k]) \o " " ELSE "") \o k
                \o (IF keys = {k} THEN "" ELSE " + " \o sideString(comp, keys \ {k}))

\* what ThreeBodyReaction and FalloffReaction append to a side
partnerString(Rin) ==
    IF Rin.rtype = "three-body"
    THEN " + " \o (IF Rin.m_third_body.specified_collision_partner
                   THEN MapBegin(Rin.m_third_body.efficiencies) ELSE "M")
    ELSE IF Rin.rtype = "falloff"
    THEN " (+" \o (IF Rin.m_third_body.specified_collision_partner
                   THEN MapBegin(Rin.m_third_body.efficiencies) ELSE "M") \o ")"
    ELSE ""

\* the virtual reactantString() and productString()
reactantString(Rin) ==
    sideString(Rin.reactants, DOMAIN Rin.reactants) \o partnerString(Rin)

productString(Rin) ==
    sideString(Rin.products, DOMAIN Rin.products) \o partnerString(Rin)

\* Reaction::equation()
Reaction_equation(Rin) ==
    reactantString(Rin) \o (IF Rin.reversible THEN " <=> " ELSE " => ")
        \o productString(Rin)

\* tokenizeString(s, tokens): the blank-separated words of s; cur is the word
\* being read at position i
RECURSIVE tokenizeFrom(_, _, _, _)
tokenizeFrom(str, i, cur, tokens) ==
    IF i > Len(str) THEN (IF cur = "" THEN tokens ELSE Append(tokens, cur))
    ELSE IF CharAt(str, i) = " "
    THEN tokenizeFrom(str, i + 1, "", IF cur = "" THEN tokens ELSE Append(tokens, cur))
    ELSE tokenizeFrom(str, i + 1, cur \o CharAt(str, i), tokens)

tokenizeString(str) == tokenizeFrom(str, 1, "", <<>>)

-----------------------------------------------------------------------------
(* checkBalance and checkSpecies *)

\* A Kinetics with its loading policy: skipUndeclaredSpecies() and
\* skipUndeclaredThirdBodies()
Mechanism(species, nDim, skipSpecies, skipThirdBodies) ==
    [present |-> TRUE, species |-> species, nDim |-> nDim,
     skipUndeclaredSpecies |-> skipSpecies,
     skipUndeclaredThirdBodies |-> skipThirdBodies]

\* ph.elementName(m), m < ph.nElements(): the elements of the phase
Elements == {"Ar", "H", "O"}

\* ph.nAtoms(k, m): atoms of element el in species sp
nAtoms(sp, el) ==
    CASE sp = "A" /\ el = "H" -> 1
      [] sp = "B" /\ el = "H" -> 1
      [] sp = "AR" /\ el = "Ar" -> 1
      [] sp = "H2" /\ el = "H" -> 2
      [] sp = "O2" /\ el = "O" -> 2
      [] sp = "H2O" /\ el = "H" -> 2
      [] sp = "H2O" /\ el = "O" -> 1
      [] OTHER -> 0

\* sum over a Composition of stoich * weight(species)
RECURSIVE weighted(_, _, _)
weighted(comp, keys, el) ==
    IF keys = {} THEN 0
    ELSE LET k == CHOOSE k \in keys : TRUE
         IN  comp[k] * nAtoms(k, el) + weighted(comp, keys \ {k}, el)

\* balr[elem] and balp[elem] after the two loops of checkBalance
balr(Rin, el) == weighted(Rin.reactants, DOMAIN Rin.reactants, el)
balp(Rin, el) == weighted(Rin.products, DOMAIN Rin.products, el)

\* the keys of balr: every element of the phase once a species was visited
balanceKeys(Rin) ==
    IF DOMAIN Rin.reactants = {} /\ DOMAIN Rin.products = {} THEN {} ELSE Elements

\* mutant of offTolerance: the relative test made absolute
offTolerance_Absolute(elemsum, elemdiff) == elemdiff > 0

\* elemsum > 0.0 && elemdiff / elemsum > 1e-4
offTolerance(elemsum, elemdiff) == elemsum > 0 /\ elemdiff * 10000 > elemsum

\* the elements the message of checkBalance lists
unbalanced(Rin) ==
    {el \in balanceKeys(Rin) :
        offTolerance(balr(Rin, el) + balp(Rin, el), Abs(balp(Rin, el) - balr(Rin, el)))}

\* surf.size(k) summed over the species of one side that the surface phase
\* holds; every species of a two-dimensional mechanism occupies one site
RECURSIVE sites(_, _, _)
sites(comp, keys, kin) ==
    IF keys = {} THEN 0
    ELSE LET k == CHOOSE k \in keys : TRUE
         IN  (IF speciesAbsent(kin, k) THEN 0 ELSE comp[k])
                + sites(comp, keys \ {k}, kin)

\* fabs(reac_sites - prod_sites) > 1e-5 * (reac_sites + prod_sites)
sitesOff(reac_sites, prod_sites) ==
    Abs(reac_sites - prod_sites) * 100000 > reac_sites + prod_sites

\* kin.speciesPhase(name) finds no phase for one of the species
noPhase(Rin, kin) ==
    \E sp \in DOMAIN Rin.reactants \cup DOMAIN Rin.products : speciesAbsent(kin, sp)

\* Reaction::checkBalance(kin): the error, and the elements its message lists
checkBalance(Rin, kin) ==
    IF noPhase(Rin, kin) THEN [err |-> "unknown species", elements |-> {}]
    ELSE IF unbalanced(Rin) # {}
    THEN [err |-> "The following reaction is unbalanced", elements |-> unbalanced(Rin)]
    ELSE IF kin.nDim = 3 THEN [err |-> NoError, elements |-> {}]
    ELSE IF sitesOff(sites(Rin.reactants, DOMAIN Rin.reactants, kin),
                     sites(Rin.products, DOMAIN Rin.products, kin))
    THEN [err |-> "Number of surface sites not balanced", elements |-> {}]
    ELSE [err |-> NoError, elements |-> {}]

\* updateUndeclared(undeclared, comp, kin): the names it appends
updateUndeclared(comp, kin) == {sp \in DOMAIN comp : speciesAbsent(kin, sp)}

\* Reaction::undeclaredThirdBodies(kin)
undeclaredThirdBodies(Rin, kin) ==
    IF Rin.m_third_body.present
    THEN [first |-> updateUndeclared(Rin.m_third_body.efficiencies, kin),
          second |-> Rin.m_third_body.specified_collision_partner]
    ELSE [first |-> {}, second |-> FALSE]

\* checkSpecies from line 469 on
balanceThenTrue(b) == [ret |-> b.err = NoError, err |-> b.err]

\* mutant of thirdBodiesThenBalance: the policy test of line 453 left out
thirdBodiesThenBalance_NoThrow(Rin, kin, third) ==
    IF third.first # {} /\ kin.skipUndeclaredSpecies /\ third.second
    THEN [ret |-> FALSE, err |-> NoError]
    ELSE balanceThenTrue(checkBalance(Rin, kin))

\* checkSpecies from line 448 on; third is what undeclaredThirdBodies returned
thirdBodiesThenBalance(Rin, kin, third) ==
    IF third.first # {} /\ ~kin.skipUndeclaredThirdBodies
    THEN [ret |-> FALSE,
          err |-> IF hasKey(Rin.input, "efficiencies")
                  THEN "defines third-body efficiencies for undeclared species"
                  ELSE "is a three-body reaction with undeclared species"]
    ELSE IF third.first # {} /\ kin.skipUndeclaredSpecies /\ third.second
    THEN [ret |-> FALSE, err |-> NoError]
    ELSE balanceThenTrue(checkBalance(Rin, kin))

\* Reaction::checkSpecies(kin): the value returned, or the error thrown
checkSpecies(Rin, kin) ==
    IF updateUndeclared(Rin.reactants, kin) \cup updateUndeclared(Rin.products, kin) # {}
    THEN [ret |-> FALSE,
          err |-> IF kin.skipUndeclaredSpecies THEN NoError
                  ELSE "contains undeclared species"]
    ELSE IF updateUndeclared(Rin.orders, kin) # {}
    THEN [ret |-> FALSE,
          err |-> IF kin.skipUndeclaredSpecies THEN NoError
                  ELSE "defines reaction orders for undeclared species"]
    ELSE thirdBodiesThenBalance(Rin, kin, undeclaredThirdBodies(Rin, kin))

-----------------------------------------------------------------------------
(* getReactions *)

\* lines 965-969 for the reaction Rn that newReaction returned:
\* keep is TRUE when the reaction is appended to all_reactions
checkAndKeep(Rn, kin) ==
    IF Reaction_check(Rn) # NoError THEN [keep |-> FALSE, err |-> Reaction_check(Rn)]
    ELSE IF ~Rn.m_valid THEN [keep |-> FALSE, err |-> NoError]
    ELSE [keep |-> checkSpecies(Rn, kin).ret, err |-> checkSpecies(Rn, kin).err]

\* one pass of the loop: n is what newReaction(node, kinetics) gave
loadOne(n, kin) ==
    IF n.err # NoError THEN [keep |-> FALSE, err |-> n.err]
    ELSE checkAndKeep(n.R, kin)

RECURSIVE loadFrom(_, _, _, _, _, _)
RECURSIVE loadNext(_, _, _, _, _, _, _, _)

\* the rest of the loop after the pass for items[i], whose reaction is n.R
\* and whose outcome is one
loadNext(items, i, kin, cast, ub, all_reactions, n, one) ==
    IF one.err # NoError THEN [all_reactions |-> <<>>, err |-> one.err]
    ELSE loadFrom(items, i + 1, kin, cast, ub,
                  IF one.keep THEN Append(all_reactions, n.R) ELSE all_reactions)

\* the loop of getReactions from items[i] on
loadFrom(items, i, kin, cast, ub, all_reactions) ==
    IF i > Len(items) THEN [all_reactions |-> all_reactions, err |-> NoError]
    ELSE loadNext(items, i, kin, cast, ub, all_reactions,
                  newReaction(items[i], kin, cast, ub),
                  loadOne(newReaction(items[i], kin, cast, ub), kin))

\* getReactions(items, kinetics): the list returned, or the error thrown
getReactions(items, kin, cast, ub) == loadFrom(items, 1, kin, cast, ub, <<>>)

-----------------------------------------------------------------------------
(* Inputs *)

\* the species of the governing mechanism; "X" is declared nowhere
Declared == {"A", "B", "AR"}

Kin3 == Kinetics(Declared, 3)
Kin2 == Kinetics(Declared, 2)

NoEquation == [lhs |-> <<>>, lbr |-> NoBracket, sep |-> "", rhs |-> <<>>, rbr |-> NoBracket]

Equation(l, lb, sep, r, rb) == [lhs |-> l, lbr |-> lb, sep |-> sep, rhs |-> r, rbr |-> rb]

Separators == {"<=>", "=", "=>"}

Bare(sp) == Term(TRUE, ONE, sp)
Coef(c, sp) == Term(FALSE, c, sp)
Joined(sp) == [form |-> "joined", sp |-> sp]
Spaced(sp) == [form |-> "spaced", sp |-> sp]

\* pairs of term sequences with at most n terms together, at least one a side
SidePairs(T, n) ==
    UNION {[1..k -> T] \X SeqsUpTo(T, n - k) : k \in 1..(n - 1)}

\* Equations for the free parser: bare and numbered terms of a declared
\* species, of M and of an undeclared species, with or without a bracket
ParseTerms ==
    {Bare(sp) : sp \in {"A", "M", "X"}}
        \cup {Coef(c, sp) : c \in {ONE + ONE, -ONE}, sp \in {"A", "X"}}

ParseBrackets == {NoBracket, Joined("M"), Spaced("X")}

ParseEquations ==
    {Equation(lr[1], b, sep, lr[2], b) :
        lr \in SidePairs(ParseTerms, MaxTerms), b \in ParseBrackets, sep \in Separators}

ParseKins == {Kin3, NullKin}

\* Equations for the setters of one object, "A <tail> <=> B <tail>": the tail
\* is nothing, a collision partner (M or AR, AR also with a coefficient, or
\* both AR and M) or a bracket.  Both tails are of one kind, or one of them is
\* missing.
NoTail == [terms |-> <<>>, br |-> NoBracket]

PartnerTails ==
    {[terms |-> <<t>>, br |-> NoBracket] :
        t \in {Bare("M"), Bare("AR"), Coef(ONE + ONE, "AR"), Coef(ONE + 1, "AR")}}
        \cup {[terms |-> <<Bare("AR"), Bare("M")>>, br |-> NoBracket]}

BracketTails ==
    {[terms |-> <<>>, br |-> b] : b \in {Joined("M"), Spaced("M"), Joined("AR")}}

TailPairs ==
    (PartnerTails \X PartnerTails) \cup (BracketTails \X BracketTails)
        \cup ({NoTail} \X (PartnerTails \cup BracketTails \cup {NoTail}))
        \cup ((PartnerTails \cup BracketTails) \X {NoTail})

Tailed(first, lt, sep, second, rt) ==
    Equation(<<first>> \o lt.terms, lt.br, sep, <<second>> \o rt.terms, rt.br)

\* the same with a reactant written with the coefficient 0
ZeroEquations ==
    {Tailed(Coef(0, "A"), t, "<=>", Bare("B"), t) :
        t \in {NoTail, [terms |-> <<Bare("M")>>, br |-> NoBracket],
               [terms |-> <<>>, br |-> Joined("M")]}}

ObjEquations ==
    {Tailed(Bare("A"), p[1], "<=>", Bare("B"), p[2]) : p \in TailPairs}
        \cup ZeroEquations

\* Equations with two names on both sides: "A + AR <=> A + AR",
\* "A + AR + M <=> B + AR + M" and, with M on one side only,
\* "A + AR + M <=> B + AR"
TwoPartnerEquations ==
    {Equation(<<Bare("A"), Bare("AR")>>, NoBracket, "<=>",
              <<Bare("A"), Bare("AR")>>, NoBracket),
     Equation(<<Bare("A"), Bare("AR"), Bare("M")>>, NoBracket, "<=>",
              <<Bare("B"), Bare("AR"), Bare("M")>>, NoBracket),
     Equation(<<Bare("A"), Bare("AR"), Bare("M")>>, NoBracket, "<=>",
              <<Bare("B"), Bare("AR")>>, NoBracket)}

\* a document node: the equation and the optional keys
Node(e, extras) == ("equation" :> EquationTokens(e)) @@ extras

ObjNodeEquations ==
    {Tailed(Bare("A"), t, "<=>", Bare("B"), t) :
        t \in {[terms |-> <<Bare("M")>>, br |-> NoBracket],
               [terms |-> <<Bare("AR")>>, br |-> NoBracket],
               [terms |-> <<>>, br |-> Joined("M")],
               [terms |-> <<>>, br |-> Joined("AR")]}}

EfficiencyExtras ==
    {EmptyMap,
     ("efficiencies" :> ("AR" :> (ONE + ONE))) @@ ("default-efficiency" :> 1)}

ObjNodes == {[e |-> e, x |-> x] : e \in ObjNodeEquations, x \in EfficiencyExtras}

ObjKins == {Kin3}

\* Documents for newReaction: with or without a type, a rate field and orders
NewTails ==
    {NoTail} \cup
    {[terms |-> <<t>>, br |-> NoBracket] :
        t \in {Bare("M"), Bare("AR"), Coef(ONE + ONE, "AR")}}

NewEquations ==
    {Tailed(Bare("A"), lt, sep, Bare("B"), rt) :
        lt \in NewTails, rt \in NewTails, sep \in {"<=>", "=>"}}
    \cup {Tailed(Bare("A"), t, sep, Bare("B"), t) :
            t \in {[terms |-> <<>>, br |-> Joined("M")]}, sep \in {"<=>", "=>"}}

TypeExtras ==
    {EmptyMap} \cup
    {"type" :> t : t \in {"elementary", "three-body", "falloff", "no-such-type"}}

RateExtras ==
    {EmptyMap, "rate-constant" :> TRUE, "sticking-coefficient" :> TRUE}

OrderExtras ==
    {EmptyMap,
     "orders" :> ("A" :> (ONE + ONE)),
     "orders" :> ("A" :> -ONE),
     ("orders" :> ("A" :> -ONE)) @@ ("negative-orders" :> TRUE),
     "orders" :> ("B" :> (ONE + ONE)),
     ("orders" :> ("B" :> (ONE + ONE))) @@ ("nonreactant-orders" :> TRUE),
     ("orders" :> ("B" :> -ONE)) @@ ("nonreactant-orders" :> TRUE)
         @@ ("negative-orders" :> TRUE)}

NewNodes ==
    {[e |-> e, x |-> t @@ r @@ o] :
        e \in NewEquations, t \in TypeExtras, r \in RateExtras, o \in OrderExtras}

NewKins == {Kin3, Kin2}

\* Documents without a type, for the inference of newReaction:
\* "c A [tail] sep B [tail]" with c = 1, 2 or 4, the tail nothing, M, AR,
\* 2 AR or the bracket (+M), with or without an efficiencies key
InferTails == NewTails \cup {[terms |-> <<>>, br |-> Joined("M")]}

InferEquations ==
    {Tailed(a, lt, sep, Bare("B"), rt) :
        a \in {Bare("A"), Coef(2 * ONE, "A"), Coef(4 * ONE, "A")},
        lt \in InferTails, rt \in InferTails, sep \in {"<=>", "=>"}}

InferNodes ==
    {[e |-> e, x |-> x] :
        e \in InferEquations,
        x \in {EmptyMap, "efficiencies" :> ("AR" :> (ONE + ONE))}}

\* Compositions handed to Reaction(reactants_, products_, rate_)
Stoichs == {-ONE} \cup (0 .. MaxStoich * ONE)

Compositions(species) ==
    UNION {[keys -> Stoichs] : keys \in SUBSET species}

\* Mechanisms with every loading policy
PolicyKins ==
    {Mechanism(Declared, 3, ss, st) : ss \in BOOLEAN, st \in BOOLEAN}

\* Documents for checkSpecies: "A [tail] => B [tail]", balanced or with 2 A,
\* the tail nothing, M, a declared or an undeclared partner, or a bracket;
\* orders or efficiencies for a declared or an undeclared species
SpeciesTails ==
    {NoTail}
        \cup {[terms |-> <<Bare(sp)>>, br |-> NoBracket] : sp \in {"M", "AR", "X"}}
        \cup {[terms |-> <<>>, br |-> Joined(sp)] : sp \in {"M", "X"}}

SpeciesEquations ==
    {Tailed(a, t, "=>", Bare("B"), t) :
        a \in {Bare("A"), Coef(ONE + ONE, "A")}, t \in SpeciesTails}

SpeciesExtras ==
    {EmptyMap,
     ("orders" :> ("X" :> ONE)) @@ ("nonreactant-orders" :> TRUE),
     "efficiencies" :> ("X" :> (ONE + ONE)),
     "efficiencies" :> ("AR" :> (ONE + ONE))}

SpeciesNodes ==
    {[e |-> e, x |-> ("type" :> t) @@ x] :
        e \in SpeciesEquations, t \in Registered, x \in SpeciesExtras}

\* Documents of a reaction list: balanced, irreversible reactions that pass
\* check(); some name the undeclared X in the equation, the orders, the
\* efficiencies or the falloff bracket
PlainTail(sp) == [terms |-> <<Bare(sp)>>, br |-> NoBracket]
BracketTail(sp) == [terms |-> <<>>, br |-> Joined(sp)]

ListDocs ==
    {[e |-> Tailed(Bare("A"), NoTail, "=>", Bare("B"), NoTail), x |-> EmptyMap],
     [e |-> Tailed(Bare("A"), PlainTail("X"), "=>", Bare("B"), PlainTail("X")),
      x |-> EmptyMap],
     [e |-> Tailed(Bare("A"), NoTail, "=>", Bare("B"), NoTail),
      x |-> ("orders" :> ("X" :> ONE)) @@ ("nonreactant-orders" :> TRUE)],
     [e |-> Tailed(Bare("A"), PlainTail("M"), "=>", Bare("B"), PlainTail("M")),
      x |-> ("type" :> "three-body") @@ ("efficiencies" :> ("AR" :> (ONE + ONE)))],
     [e |-> Tailed(Bare("A"), PlainTail("M"), "=>", Bare("B"), PlainTail("M")),
      x |-> ("type" :> "three-body") @@ ("efficiencies" :> ("X" :> (ONE + ONE)))],
     [e |-> Tailed(Bare("A"), BracketTail("X"), "=>", Bare("B"), BracketTail("X")),
      x |-> "type" :> "falloff"]}

ItemLists == SeqsUpTo(ListDocs, MaxItems)

\* items.asVector<AnyMap>()
asVector(docs) == [i \in 1..Len(docs) |-> Node(docs[i].e, docs[i].x)]

\* Mechanisms of the species H2, O2, H2O: a gas phase, and a surface on
\* which every species occupies one site
KinH == Kinetics({"H2", "O2", "H2O"}, 3)
KinHSurf == Kinetics({"H2", "O2", "H2O"}, 2)

BalanceKins == {KinH, KinHSurf}

\* Documents whose reaction stays valid although it names the undeclared X:
\* "A + -1 X => B" and "A => B" with an order for A and the reactant -1 X
UnitNodes ==
    {[e |-> Tailed(Bare("A"), [terms |-> <<Coef(-ONE, "X")>>, br |-> NoBracket],
                   "=>", Bare("B"), NoTail),
      x |-> ("type" :> t) @@ o] :
        t \in Registered \ {"falloff"},
        o \in {EmptyMap, "orders" :> ("A" :> (ONE + ONE))}}

-----------------------------------------------------------------------------
(* The state machine *)

\* hist.ub: the operation ran into undefined behaviour and went on
Hist(op, eq, node, kin, pre, err, ret, type) ==
    [op |-> op, eq |-> eq, node |-> node, kin |-> kin, pre |-> pre, err |-> err,
     ret |-> ret, type |-> type, ub |-> FALSE]

InitHist == Hist("init", NoEquation, EmptyMap, NullKin, NoObject, NoError, FALSE, "")

\* the one efficiency entry that detectEfficiencies leaves is not on both
\* sides of the parsed reaction Rp
partnerMissing(Rp) ==
    /\ ~genericM(Rp)
    /\ Cardinality(DOMAIN markShared(Rp)) = 1
    /\ MapBegin(markShared(Rp)) \notin Shared(Rp)

parsedWithMissingPartner(p) == p.err = NoError /\ partnerMissing(p.R)

\* R.setEquation(equation, kin) reaches the end() dereference of
\* detectEfficiencies
reachesUB(Rin, equation, kin) ==
    /\ Rin.rtype = "three-body"
    /\ parsedWithMissingPartner(parseReactionEquation(Rin, equation, kin))

\* the call returned r (or threw r.err); h records the call
Outcome(r, h) == R' = r.R /\ hist' = [h EXCEPT !.err = r.err]

Init == R = NoObject /\ hist = InitHist /\ calls = 0

\* the default constructor of a variant
fresh(type) ==
    IF type = "three-body" THEN ThreeBodyReaction
    ELSE IF type = "falloff" THEN FalloffReaction
    ELSE Reaction

\* there is an object, and the last operation on it returned normally
Usable == R.rtype # "none" /\ hist.err = NoError /\ ~hist.ub

\* Reaction(), ThreeBodyReaction(), FalloffReaction()
Construct(types) ==
    /\ R.rtype = "none" /\ hist.op = "init"
    /\ \E t \in types :
        /\ R' = fresh(t)
        /\ hist' = Hist("construct", NoEquation, EmptyMap, NullKin, R, NoError, FALSE, t)
    /\ calls' = 0

\* parseReactionEquation(testReaction, equation, node, kin) on a Reaction of
\* its own
ParseAct(eqs, kins) ==
    /\ R.rtype = "none" /\ hist.op = "init"
    /\ \E e \in eqs, kin \in kins :
        Outcome(parseReactionEquation(Reaction, EquationTokens(e), kin),
                Hist("parse", e, EmptyMap, kin, Reaction, NoError, FALSE, ""))
    /\ calls' = 0

\* R.setEquation(equation, kin)
SetEquationAct(eqs, kins) ==
    /\ Usable /\ calls < MaxCalls
    /\ \E e \in eqs, kin \in kins, ub \in UBOutcomes :
        Outcome(setEquation(R, EquationTokens(e), kin, ub),
                [Hist("setEquation", e, EmptyMap, kin, R, NoError, FALSE, "")
                    EXCEPT !.ub = reachesUB(R, EquationTokens(e), kin)])
    /\ calls' = calls + 1

\* the object goes out of scope (also after a throw)
Destroy ==
    /\ hist.op # "init"
    /\ R' = NoObject /\ hist' = InitHist /\ calls' = 0

\* R.setParameters(node, kin)
SetParametersAct(nodes, kins) ==
    /\ Usable /\ calls < MaxCalls
    /\ \E n \in nodes, kin \in kins, ub \in UBOutcomes :
        Outcome(setParameters(R, Node(n.e, n.x), kin, ub),
                [Hist("setParameters", n.e, Node(n.e, n.x), kin, R, NoError, FALSE, "")
                    EXCEPT !.ub = reachesUB(R, EquationTokens(n.e), kin)])
    /\ calls' = calls + 1

\* the call returned r with the selected type (or threw r.err)
OutcomeTyped(r, h) == R' = r.R /\ hist' = [h EXCEPT !.err = r.err, !.type = r.type]

\* R = newReaction(node, kin)
NewReactionAct(nodes, kins) ==
    /\ R.rtype = "none" /\ hist.op = "init"
    /\ \E n \in nodes, kin \in kins, cast \in CastModes, ub \in UBOutcomes :
        OutcomeTyped(newReaction(Node(n.e, n.x), kin, cast, ub),
                     Hist("newReaction", n.e, Node(n.e, n.x), kin, R, NoError, FALSE, ""))
    /\ calls' = 1

\* Reaction(reactants_, products_, rate_)
LoadAct(reacs, prods) ==
    /\ R.rtype = "none" /\ hist.op = "init"
    /\ \E r \in reacs, p \in prods :
        /\ R' = [Reaction EXCEPT !.reactants = r, !.products = p]
        /\ hist' = Hist("load", NoEquation, EmptyMap, NullKin, R, NoError, FALSE, "")
    /\ calls' = 0

\* R.check()
CheckAct ==
    /\ Usable /\ hist.op # "check"
    /\ R' = R
    /\ hist' = Hist("check", hist.eq, hist.node, hist.kin, R, Reaction_check(R),
                    FALSE, "")
    /\ calls' = calls

\* isThreeBody(R)
IsThreeBodyAct ==
    /\ Usable /\ hist.op # "isThreeBody"
    /\ \E cast \in CastModes :
        /\ R' = R
        /\ hist' = Hist("isThreeBody", hist.eq, hist.node, hist.kin, R, NoError,
                        isThreeBody(R, cast), "")
    /\ calls' = calls

\* R.checkSpecies(kin), kin the mechanism the reaction was built for
CheckSpeciesAct ==
    /\ Usable /\ hist.op = "newReaction"
    /\ R' = R
    /\ hist' = Hist("checkSpecies", hist.eq, hist.node, hist.kin, R,
                    checkSpecies(R, hist.kin).err, checkSpecies(R, hist.kin).ret,
                    hist.type)
    /\ calls' = calls

\* all_reactions = getReactions(items, kinetics); hist.ret is the list
\* returned (none on a throw), hist.node the documents
GetReactionsAct(lists, kins) ==
    /\ R.rtype = "none" /\ hist.op = "init"
    /\ \E docs \in lists, kin \in kins, cast \in CastModes, ub \in UBOutcomes :
        /\ hist' = Hist("getReactions", NoEquation, docs, kin, R,
                        getReactions(asVector(docs), kin, cast, ub).err,
                        getReactions(asVector(docs), kin, cast, ub).all_reactions, "")
    /\ R' = R
    /\ calls' = 0

\* R.checkBalance(kin); hist.ret is the set of elements the error lists
CheckBalanceAct(kins) ==
    /\ Usable /\ hist.op = "load"
    /\ \E kin \in kins :
        /\ R' = R
        /\ hist' = Hist("checkBalance", hist.eq, hist.node, kin, R,
                        checkBalance(R, kin).err, checkBalance(R, kin).elements, "")
    /\ calls' = calls

\* a new reaction of the variant of R is given R.equation():
\* hist.pre is the reaction rendered, hist.ret the string, R the new reaction
ReparseAct(kins) ==
    /\ Usable /\ hist.op \in {"setEquation", "setParameters"}
    /\ \E kin \in kins, ub \in UBOutcomes :
        Outcome(setEquation(fresh(R.rtype), tokenizeString(Reaction_equation(R)), kin, ub),
                [Hist("reparse", hist.eq, hist.node, kin, R, NoError, Reaction_equation(R),
                      R.rtype)
                    EXCEPT !.ub = reachesUB(fresh(R.rtype),
                                            tokenizeString(Reaction_equation(R)), kin)])
    /\ calls' = calls

\* R.calculateRateCoeffUnits(kin); hist.ret is the UnitStack returned
UnitsAct ==
    /\ Usable /\ hist.op \in {"newReaction", "setParameters"}
    /\ R' = R
    /\ hist' = Hist("calculateRateCoeffUnits", hist.eq, hist.node, hist.kin, R,
                    calculateRateCoeffUnits(R, hist.kin).err,
                    calculateRateCoeffUnits(R, hist.kin).units, hist.type)
    /\ calls' = calls

\* The free parser on equations of up to MaxTerms terms
NextParse == ParseAct(ParseEquations, ParseKins) \/ Destroy

SpecParse == Init /\ [][NextParse]_vars

\* One object of a variant and its setters
Next ==
    \/ Construct(Registered)
    \/ SetEquationAct(ObjEquations, ObjKins)
    \/ SetParametersAct(ObjNodes, ObjKins)
    \/ Destroy

Spec == Init /\ [][Next]_vars

\* An object of a third-body variant and its setters, on equations with no,
\* one or two collision partners
NextPartner ==
    \/ Construct({"three-body", "falloff"})
    \/ SetEquationAct(ObjEquations \cup TwoPartnerEquations, ObjKins)
    \/ SetParametersAct(ObjNodes, ObjKins)
    \/ Destroy

SpecPartner == Init /\ [][NextPartner]_vars

\* newReaction on a document without a type, and check() on what it built
NextInfer == NewReactionAct(InferNodes, {Kin3}) \/ CheckAct \/ Destroy

SpecInfer == Init /\ [][NextInfer]_vars

\* newReaction on a document, and check() on what it built
NextNew == NewReactionAct(NewNodes, NewKins) \/ CheckAct \/ Destroy

SpecNew == Init /\ [][NextNew]_vars

\* isThreeBody on directly built reactions
NextThreeBody ==
    \/ LoadAct(Compositions({"A", "AR", "B"}), Compositions({"AR", "B"}))
    \/ IsThreeBodyAct
    \/ Destroy

SpecThreeBody == Init /\ [][NextThreeBody]_vars

\* newReaction on a typed document, and checkSpecies on what it built
NextSpecies == NewReactionAct(SpeciesNodes, PolicyKins) \/ CheckSpeciesAct \/ Destroy

SpecSpecies == Init /\ [][NextSpecies]_vars

\* getReactions on lists of up to MaxItems documents
NextList == GetReactionsAct(ItemLists, PolicyKins) \/ Destroy

SpecList == Init /\ [][NextList]_vars

\* checkBalance on directly built reactions of H2, O2 and H2O
NextBalance ==
    \/ LoadAct(Compositions({"H2", "O2"}), Compositions({"H2", "H2O"}))
    \/ CheckBalanceAct(BalanceKins)
    \/ Destroy

SpecBalance == Init /\ [][NextBalance]_vars

\* One object, its setters, and its equation given to a new object
NextRound ==
    \/ Construct(Registered)
    \/ SetEquationAct(ObjEquations, ObjKins)
    \/ SetParametersAct(ObjNodes, ObjKins)
    \/ ReparseAct(ObjKins)
    \/ Destroy

SpecRound == Init /\ [][NextRound]_vars

\* The units of what newReaction built in a single-phase mechanism, and of
\* an object filled by setParameters, which asks for no units itself
NextUnits ==
    \/ NewReactionAct(NewNodes \cup SpeciesNodes \cup UnitNodes, {Kin3})
    \/ Construct(Registered)
    \/ SetParametersAct(UnitNodes, {Kin3})
    \/ UnitsAct
    \/ Destroy

SpecUnits == Init /\ [][NextUnits]_vars

-----------------------------------------------------------------------------
(* Claims *)

TermValue(t) == IF t.bare THEN ONE ELSE t.coef

\* the sum of the coefficients of the terms of ts that name sp
RECURSIVE SideSum(_, _)
SideSum(ts, sp) ==
    IF Len(ts) = 0 THEN 0
    ELSE (IF ts[1].sp = sp THEN TermValue(ts[1]) ELSE 0) + SideSum(Tail(ts), sp)

SideNames(ts) == {ts[i].sp : i \in DOMAIN ts}

BracketKeys(b) == IF b.form = "none" THEN {} ELSE {"(+" \o b.sp \o ")"}

\* what a side of terms ts and bracket b is to parse to
ExpectedSide(ts, b) ==
    [k \in SideNames(ts) \cup BracketKeys(b) |->
        IF k \in SideNames(ts) THEN SideSum(ts, k) ELSE -ONE]

AllTerms(e) == {e.lhs[i] : i \in DOMAIN e.lhs} \cup {e.rhs[i] : i \in DOMAIN e.rhs}

\* C1: parseReactionEquation on a fresh Reaction succeeds on every equation
\* of bare and numbered terms with one separator; each species of a side
\* maps to the sum of the coefficients of its terms on that side (a bare term
\* counts 1.0, repeated species accumulate), and reversible is true for
\* "<=>" and "=" and false for "=>".
C1_ParseYieldsTermSums ==
    hist.op = "parse" =>
        /\ hist.err = NoError
        /\ R.reactants = ExpectedSide(hist.eq.lhs, hist.eq.lbr)
        /\ R.products = ExpectedSide(hist.eq.rhs, hist.eq.rbr)
        /\ R.reversible = (hist.eq.sep \in {"<=>", "="})

\* "2 A + A => M": the repeated species holds 3.0
C1_Witness ==
    /\ hist.op = "parse"
    /\ hist.eq = Equation(<<Coef(ONE + ONE, "A"), Bare("A")>>, NoBracket, "=>",
                          <<Bare("M")>>, NoBracket)
    /\ R.reactants = ("A" :> 3 * ONE)
    /\ R.products = ("M" :> ONE)
    /\ ~R.reversible

\* C2: with a governing mechanism, the Reaction is marked invalid if and only
\* if some parsed term names a species that is not M, is no bracket term and
\* is absent from the mechanism's species list; no error is raised.
C2_InvalidIffUndeclaredTerm ==
    (hist.op = "parse" /\ hist.kin.present) =>
        /\ hist.err = NoError
        /\ ~R.m_valid <=>
              \E t \in AllTerms(hist.eq) :
                  t.sp # "M" /\ speciesAbsent(hist.kin, t.sp)

SideHas(ts, sp) == \E i \in DOMAIN ts : ts[i].sp = sp

\* the equation names M on both sides
MOnBothSides(e) == SideHas(e.lhs, "M") /\ SideHas(e.rhs, "M")

\* what the generic parser makes of the last setEquation
Parsed == parseReactionEquation(hist.pre, EquationTokens(hist.eq), hist.kin).R

\* the composition `after` is `before` without key k, all else the same
Without(after, before, k) ==
    /\ DOMAIN after = DOMAIN before \ {k}
    /\ \A s \in DOMAIN after : after[s] = before[s]

LessOne(after, before, S) ==
    /\ S \in DOMAIN after <=> before[S] # ONE
    /\ S \in DOMAIN after => after[S] = before[S] - ONE
    /\ DOMAIN before \ {S} = DOMAIN after \ {S}
    /\ \A s \in DOMAIN after \ {S} : after[s] = before[s]

\* C4: on a new three-body reaction whose equation has no generic M on both
\* sides and exactly one species S on both sides, setEquation sets
\* specified_collision_partner, default_efficiency = 0, efficiencies = {S: 1.0}
\* and takes exactly 1 off the coefficient of S on each side, removing S
\* there if and only if that coefficient was exactly 1.
C4_ExplicitPartnerResolved ==
    (hist.op = "setEquation" /\ hist.pre = ThreeBodyReaction
        /\ ~MOnBothSides(hist.eq) /\ Cardinality(Shared(Parsed)) = 1) =>
        LET S == CHOOSE sp \in Shared(Parsed) : TRUE
        IN  /\ hist.err = NoError
            /\ R.m_third_body.specified_collision_partner
            /\ R.m_third_body.default_efficiency = 0
            /\ R.m_third_body.efficiencies = (S :> ONE)
            /\ LessOne(R.reactants, Parsed.reactants, S)
            /\ LessOne(R.products, Parsed.products, S)

\* both sides carry the same bracket term, in either writing
SameBracket(e) == e.lbr.form # "none" /\ e.rbr.form # "none" /\ e.lbr.sp = e.rbr.sp

\* C5: FalloffReaction::setEquation on an equation with the same bracket
\* term (+X) on both sides, written "(+X)" or "(+ X)", parses the term with
\* coefficient -1 and removes it from both sides, all other coefficients as
\* parsed.  For X = M the result has specified_collision_partner = false;
\* otherwise specified_collision_partner = true, default_efficiency = 0 and
\* efficiencies = {X: 1.0}.
C5_FalloffBracketResolved ==
    (hist.op = "setEquation" /\ hist.pre.rtype = "falloff" /\ SameBracket(hist.eq)) =>
        LET X == hist.eq.lbr.sp
            key == "(+" \o X \o ")"
            tb == R.m_third_body
        IN  /\ hist.err = NoError
            /\ key \in DOMAIN Parsed.reactants /\ Parsed.reactants[key] = -ONE
            /\ key \in DOMAIN Parsed.products /\ Parsed.products[key] = -ONE
            /\ Without(R.reactants, Parsed.reactants, key)
            /\ Without(R.products, Parsed.products, key)
            /\ X = "M" => ~tb.specified_collision_partner
            /\ X # "M" =>
                /\ tb.specified_collision_partner
                /\ tb.default_efficiency = 0
                /\ tb.efficiencies = (X :> ONE)

AfterSetter == Usable /\ hist.op \in {"construct", "setEquation", "setParameters"}

\* C6: after any sequence of setEquation and setParameters calls that return
\* normally on a three-body or falloff reaction, specified_collision_partner
\* implies that efficiencies holds exactly one entry, of value 1.0, and
\* default_efficiency is 0.
C6_ExplicitPartnerInvariant ==
    (AfterSetter /\ R.m_third_body.present
        /\ R.m_third_body.specified_collision_partner) =>
        /\ Cardinality(DOMAIN R.m_third_body.efficiencies) = 1
        /\ \A s \in DOMAIN R.m_third_body.efficiencies :
               R.m_third_body.efficiencies[s] = ONE
        /\ R.m_third_body.default_efficiency = 0

\* C7: after any sequence of successful equation setters no entry of
\* reactants or products has the coefficient zero.
C7_NoZeroCoefficient ==
    AfterSetter =>
        /\ \A s \in DOMAIN R.reactants : R.reactants[s] # 0
        /\ \A s \in DOMAIN R.products : R.products[s] # 0

\* every coefficient of the composition is a whole number
WholeNumbers(comp) == \A s \in DOMAIN comp : comp[s] % ONE = 0

NoNegative(comp) == \A s \in DOMAIN comp : comp[s] >= 0

\* the sum of the coefficients of a composition
RECURSIVE CoefSum(_, _)
CoefSum(comp, keys) ==
    IF keys = {} THEN 0
    ELSE LET k == CHOOSE k \in keys : TRUE
         IN  comp[k] + CoefSum(comp, keys \ {k})

SumIsThree(comp) == CoefSum(comp, DOMAIN comp) = 3 * ONE

OnBothSides == DOMAIN R.reactants \cap DOMAIN R.products

\* C8 (as stated): isThreeBody(R) returns true if and only if exactly one
\* species is on both sides, with an integer coefficient that is the same
\* on the two sides, every coefficient is an integer, and the coefficients
\* of the reactants or of the products sum to three.  Stated for the
\* reactions without a negative coefficient.
C8_IdenticalCoefficient ==
    (hist.op = "isThreeBody" /\ NoNegative(R.reactants) /\ NoNegative(R.products)) =>
        (hist.ret <=>
            /\ Cardinality(OnBothSides) = 1
            /\ \A s \in OnBothSides : R.reactants[s] = R.products[s]
            /\ WholeNumbers(R.reactants) /\ WholeNumbers(R.products)
            /\ SumIsThree(R.reactants) \/ SumIsThree(R.products))

\* C8 (amended): isThreeBody(R) returns true only if exactly one species is
\* on both sides and every coefficient is an integer; the two coefficients
\* of that species need not be equal.  On a reaction without a negative
\* coefficient it returns true if and only if, in addition, the
\* coefficients of the reactants or of the products sum to three.
C8_SharedIntegerSpecies ==
    hist.op = "isThreeBody" =>
        LET a == Cardinality(OnBothSides) = 1
            b == WholeNumbers(R.reactants) /\ WholeNumbers(R.products)
            c == SumIsThree(R.reactants) \/ SumIsThree(R.products)
        IN  /\ hist.ret => a /\ b
            /\ (NoNegative(R.reactants) /\ NoNegative(R.products))
                   => (hist.ret <=> a /\ b /\ c)

\* {A: 1, AR: 2} -> {AR: 1, B: 1} is classified as three-body
C8_Witness ==
    /\ hist.op = "isThreeBody" /\ hist.ret
    /\ R.reactants = ("A" :> ONE) @@ ("AR" :> 2 * ONE)
    /\ R.products = ("AR" :> ONE) @@ ("B" :> ONE)

\* the throwaway Reaction of newReaction
TrialParse == parseReactionEquation(Reaction, hist.node["equation"], hist.kin)

\* C9: newReaction(node, kin) uses the declared type if the document has
\* one; otherwise, for a three-dimensional phase, three-body exactly when
\* isThreeBody holds on the trial parse of the equation and elementary if
\* not; otherwise elementary.  A type that is not registered makes the call
\* fail with the unknown-reaction-type error and no reaction is built; a
\* reaction that is built is of the selected variant.
C9_TypeSelection ==
    hist.op = "newReaction" =>
        /\ "type" \in DOMAIN hist.node => hist.type = hist.node["type"]
        /\ ("type" \notin DOMAIN hist.node /\ hist.kin.nDim = 3
                /\ TrialParse.err = NoError) =>
              \E cast \in CastModes :
                  hist.type = IF isThreeBody(TrialParse.R, cast)
                              THEN "three-body" ELSE "elementary"
        /\ ("type" \notin DOMAIN hist.node /\ hist.kin.nDim # 3) =>
              hist.type = "elementary"
        /\ hist.type \notin Registered =>
              hist.err = "Unknown reaction type" /\ R = NoObject
        /\ hist.err = NoError => R.rtype = hist.type

\* "A + AR => B + AR" with a declared type "elementary" stays elementary
\* although the trial parse would classify it as three-body
C9_Witness ==
    /\ hist.op = "newReaction" /\ hist.err = NoError
    /\ "type" \in DOMAIN hist.node /\ hist.node["type"] = "elementary"
    /\ hist.kin.nDim = 3
    /\ \A cast \in CastModes : isThreeBody(TrialParse.R, cast)
    /\ R.rtype = "elementary"

\* C10: Reaction::check raises an invalid-reaction-order error if and only
\* if an order names a species that is not a reactant while
\* allow_nonreactant_orders is false, or an order is negative while
\* allow_negative_orders is false, or orders is not empty and the reaction
\* is reversible.  So an order on a reversible reaction is rejected whatever
\* the flags are, and orders = {A: 2.0} on an irreversible reaction with the
\* reactant A passes.
C10_OrderErrors ==
    hist.op = "check" =>
        /\ hist.err \in OrderErrors <=>
            \/ ~R.allow_nonreactant_orders
                   /\ \E s \in DOMAIN R.orders : s \notin DOMAIN R.reactants
            \/ ~R.allow_negative_orders
                   /\ \E s \in DOMAIN R.orders : R.orders[s] < 0
            \/ DOMAIN R.orders # {} /\ R.reversible
        /\ (R.reversible /\ DOMAIN R.orders # {}) => hist.err \in OrderErrors
        /\ (~R.reversible /\ R.orders = ("A" :> 2 * ONE) /\ "A" \in DOMAIN R.reactants)
               => hist.err = NoError

\* an order on a reversible reaction is rejected although both relaxation
\* flags are set
C10_Witness ==
    /\ hist.op = "check" /\ R.reversible /\ DOMAIN R.orders # {}
    /\ R.allow_nonreactant_orders /\ R.allow_negative_orders
    /\ hist.err = "Reaction orders may only be given for irreversible reactions"

\* the species a reaction names that its mechanism does not declare
Unknown(comp) == {sp \in DOMAIN comp : sp \notin hist.kin.species}

\* no element's totals differ
ElementsEqual == \A el \in Elements : balr(R, el) = balp(R, el)

CheckedTrue == hist.op = "checkSpecies" /\ hist.err = NoError /\ hist.ret = TRUE

\* C11 as stated: whenever checkSpecies returns true, whatever the two
\* policy flags are, no species of the reactants, products, orders or
\* efficiencies is undeclared and the reaction is balanced.
C11_TrueMeansClosedAndBalanced ==
    CheckedTrue =>
        /\ Unknown(R.reactants) = {} /\ Unknown(R.products) = {}
        /\ Unknown(R.orders) = {}
        /\ Unknown(R.m_third_body.efficiencies) = {}
        /\ ElementsEqual

\* C11 amended: whenever checkSpecies returns true, no species of the
\* reactants, products or orders is undeclared and the reaction is balanced;
\* an undeclared species among the efficiencies is possible only under
\* skipUndeclaredThirdBodies, and then not for an explicitly specified
\* collision partner when skipUndeclaredSpecies is set as well.
C11_TrueMeansClosedUnlessThirdBodiesSkipped ==
    CheckedTrue =>
        /\ Unknown(R.reactants) = {} /\ Unknown(R.products) = {}
        /\ Unknown(R.orders) = {}
        /\ ElementsEqual
        /\ (R.m_third_body.present /\ Unknown(R.m_third_body.efficiencies) # {}) =>
              /\ hist.kin.skipUndeclaredThirdBodies
              /\ ~(hist.kin.skipUndeclaredSpecies
                     /\ R.m_third_body.specified_collision_partner)

\* a balanced three-body reaction with the efficiency of an undeclared
\* species passes under skipUndeclaredThirdBodies
C11_Witness ==
    /\ CheckedTrue
    /\ R.rtype = "three-body"
    /\ R.reactants = ("A" :> ONE) /\ R.products = ("B" :> ONE)
    /\ R.m_third_body.efficiencies = ("X" :> (ONE + ONE))
    /\ hist.kin.skipUndeclaredThirdBodies /\ hist.kin.skipUndeclaredSpecies

\* the species a document names: in its equation (terms and brackets), its
\* orders and its efficiencies
Named(doc) ==
    {doc.e.lhs[i].sp : i \in 1..Len(doc.e.lhs)}
        \cup {doc.e.rhs[i].sp : i \in 1..Len(doc.e.rhs)}
        \cup {b.sp : b \in {c \in {doc.e.lbr, doc.e.rbr} : c.form # "none"}}
        \cup (IF hasKey(doc.x, "orders") THEN DOMAIN doc.x["orders"] ELSE {})
        \cup (IF hasKey(doc.x, "efficiencies") THEN DOMAIN doc.x["efficiencies"] ELSE {})

NamesUndeclared(doc) == \E sp \in Named(doc) \ {"M"} : sp \notin hist.kin.species

UndeclaredErrors ==
    {"contains undeclared species",
     "defines reaction orders for undeclared species",
     "defines third-body efficiencies for undeclared species",
     "is a three-body reaction with undeclared species"}

\* C12: when the mechanism does not skip undeclared species, getReactions on
\* a list in which some document names a species the mechanism lacks (in its
\* equation, orders or efficiencies) throws an undeclared-species error and
\* returns no list.
C12_UndeclaredAbortsLoad ==
    (/\ hist.op = "getReactions"
     /\ ~hist.kin.skipUndeclaredSpecies
     /\ \E i \in 1..Len(hist.node) : NamesUndeclared(hist.node[i]))
        => hist.err \in UndeclaredErrors /\ hist.ret = <<>>

\* d / t > 1e-4 for a non-zero t, without the division
RatioAbove(d, t) == IF t > 0 THEN d * 10000 > t ELSE d * 10000 < t

\* element el is out of balance as the claim defines it
OutOfBalance(el) ==
    /\ balp(R, el) + balr(R, el) # 0
    /\ RatioAbove(Abs(balp(R, el) - balr(R, el)), balp(R, el) + balr(R, el))

Unbalanced == hist.err = "The following reaction is unbalanced"

TotalsDiffer == \E el \in Elements : balr(R, el) # balp(R, el)

\* C13 as stated: checkBalance raises the unbalanced-equation error iff some
\* element is out of balance (relative difference above 1e-4, a zero sum
\* counting as balanced), the one error lists every such element, and with
\* integer coefficients it rejects exactly the reactions in which some
\* element's totals differ.
C13_RejectsExactlyDifferingTotals ==
    hist.op = "checkBalance" =>
        /\ Unbalanced <=> \E el \in Elements : OutOfBalance(el)
        /\ Unbalanced => hist.ret = {el \in Elements : OutOfBalance(el)}
        /\ (WholeNumbers(R.reactants) /\ WholeNumbers(R.products))
              => (Unbalanced <=> TotalsDiffer)

\* C13 amended: the same, the last part only for reactions without a
\* negative coefficient; "H2 + O2 => H2O" is rejected for O alone and
\* "2 H2 + O2 => 2 H2O" is accepted.
C13_RelativeToleranceBalance ==
    hist.op = "checkBalance" =>
        /\ Unbalanced <=> \E el \in Elements : OutOfBalance(el)
        /\ Unbalanced => hist.ret = {el \in Elements : OutOfBalance(el)}
        /\ (/\ WholeNumbers(R.reactants) /\ WholeNumbers(R.products)
            /\ NoNegative(R.reactants) /\ NoNegative(R.products))
              => (Unbalanced <=> TotalsDiffer)
        /\ (R.reactants = ("H2" :> ONE) @@ ("O2" :> ONE) /\ R.products = ("H2O" :> ONE))
              => Unbalanced /\ hist.ret = {"O"}
        /\ (/\ R.reactants = ("H2" :> (ONE + ONE)) @@ ("O2" :> ONE)
            /\ R.products = ("H2O" :> (ONE + ONE)))
              => ~Unbalanced

\* "2 H2 + O2 => 2 H2O" went through checkBalance of the gas mechanism
C13_Witness ==
    /\ hist.op = "checkBalance" /\ hist.err = NoError /\ hist.kin = KinH
    /\ R.reactants = ("H2" :> (ONE + ONE)) @@ ("O2" :> ONE)
    /\ R.products = ("H2O" :> (ONE + ONE))

\* the collision partner a reaction is resolved to: "M" when none is specified
Partner(Rin) ==
    IF ~Rin.m_third_body.present THEN ""
    ELSE IF Rin.m_third_body.specified_collision_partner
    THEN MapBegin(Rin.m_third_body.efficiencies)
    ELSE "M"

\* C14: a reaction of any variant whose equation was set successfully,
\* rendered with equation() and set on a new reaction of the same variant,
\* gives no error and the same reactants, products, reversible flag and
\* collision partner.
C14_RoundTrip ==
    hist.op = "reparse" =>
        /\ hist.err = NoError /\ ~hist.ub
        /\ R.reactants = hist.pre.reactants
        /\ R.products = hist.pre.products
        /\ R.reversible = hist.pre.reversible
        /\ Partner(R) = Partner(hist.pre)

\* the reactants the claim counts: no explicit order, not M, no "(+" name
Counted ==
    {sp \in DOMAIN R.reactants :
        sp \notin DOMAIN R.orders /\ sp # "M" /\ ~starts_with(sp, "(+")}

MassActionThirdBody == R.m_third_body.present /\ R.m_third_body.mass_action

\* C15 as stated: calculateRateCoeffUnits gives the empty stack for an
\* invalid reaction; for a valid one the exponent of the
\* standard-concentration unit is 1 - (sum of the orders) - (sum of the
\* coefficients of the reactants without an order that are neither M nor a
\* "(+" name), less 1 exactly when the reaction has a mass-action third body,
\* and the time exponent is -1.
C15_RateCoeffUnits ==
    hist.op = "calculateRateCoeffUnits" =>
        /\ ~R.m_valid => hist.err = NoError /\ hist.ret = EmptyStack
        /\ (R.m_valid /\ Unknown(R.orders) = {} /\ Unknown(R.reactants) \cap Counted = {}) =>
              /\ hist.err = NoError
              /\ hist.ret.concentration =
                    ONE - CoefSum(R.orders, DOMAIN R.orders) - CoefSum(R.reactants, Counted)
                        - (IF MassActionThirdBody THEN ONE ELSE 0)
              /\ -hist.ret.perSecond = -ONE

\* C15 amended: the same, the further factor -1 being added exactly when the
\* reaction has a third body (three-body and falloff alike, whatever
\* mass_action is), for a valid reaction whose orders and counted reactants
\* name declared species only; where one of them names an undeclared species
\* the phase lookup fails and no stack is returned.
C15_UnitsCountAnyThirdBody ==
    hist.op = "calculateRateCoeffUnits" =>
        /\ ~R.m_valid => hist.err = NoError /\ hist.ret = EmptyStack
        /\ (R.m_valid /\ Unknown(R.orders) = {} /\ Unknown(R.reactants) \cap Counted = {}) =>
              /\ hist.err = NoError
              /\ hist.ret.concentration =
                    ONE - CoefSum(R.orders, DOMAIN R.orders) - CoefSum(R.reactants, Counted)
                        - (IF R.m_third_body.present THEN ONE ELSE 0)
              /\ -hist.ret.perSecond = -ONE
        /\ (R.m_valid /\ ~(Unknown(R.orders) = {} /\ Unknown(R.reactants) \cap Counted = {}))
              => hist.err # NoError

\* the falloff reaction "A (+M) => B (+M)": 1 - 1 - 1
C15_Witness ==
    /\ hist.op = "calculateRateCoeffUnits" /\ hist.err = NoError
    /\ R.rtype = "falloff" /\ R.m_valid /\ ~R.m_third_body.mass_action
    /\ R.reactants = ("A" :> ONE) /\ DOMAIN R.orders = {}
    /\ hist.ret = UnitStack(-ONE, ONE)

\* the names written on both sides of the equation, M included
OnBothSidesOf(e) == SideNames(e.lhs) \cap SideNames(e.rhs)

\* C16: a missing or ambiguous collision partner is always fatal.
\* ThreeBodyReaction::setEquation raises an error when no species (M or
\* explicit) is on both sides and when more than one is; and
\* FalloffReaction::setEquation raises an error when the reactants hold no
\* bracket term and when the reactant bracket term is not among the
\* products.  In none of these cases does the setter return normally.
\* The three-body half is stated for the equations without a bracket term.
C16_PartnerErrorsFatal ==
    hist.op = "setEquation" =>
        /\ (hist.pre.rtype = "three-body"
               /\ hist.eq.lbr.form = "none" /\ hist.eq.rbr.form = "none"
               /\ Cardinality(OnBothSidesOf(hist.eq)) # 1) => hist.err # NoError
        /\ (hist.pre.rtype = "falloff" /\ ~SameBracket(hist.eq)) => hist.err # NoError

\* the two errors of a three-body equation without a usable partner
PartnerErrors ==
    {"does not contain third body 'M'",
     "Found more than one explicitly specified collision partner"}

\* newReaction took the three-body variant from the trial parse of a document
\* without a type
InferredThreeBody ==
    /\ hist.op = "newReaction" /\ "type" \notin DOMAIN hist.node
    /\ hist.kin.nDim = 3 /\ TrialParse.err = NoError
    /\ hist.type = "three-body"

\* C17: whenever newReaction infers the three-body variant from a document
\* without a type, exactly one species S is on both sides of the trial parse,
\* the setEquation of the new ThreeBodyReaction raises neither the
\* missing-third-body nor the more-than-one-partner error, and the reaction
\* built has resolved S: for S = M, M is removed from both sides and no
\* explicit partner is recorded; otherwise S is the explicit partner
\* (efficiencies = {S: 1.0}, default_efficiency = 0) and its coefficient is
\* one less on each side.
C17_InferredPartnerResolved ==
    InferredThreeBody =>
        /\ Cardinality(Shared(TrialParse.R)) = 1
        /\ hist.err \notin PartnerErrors
        /\ hist.err = NoError =>
              LET S == CHOOSE x \in Shared(TrialParse.R) : TRUE
                  tb == R.m_third_body
              IN  /\ R.rtype = "three-body"
                  /\ S = "M" =>
                        /\ ~tb.specified_collision_partner
                        /\ Without(R.reactants, TrialParse.R.reactants, "M")
                        /\ Without(R.products, TrialParse.R.products, "M")
                  /\ S # "M" =>
                        /\ tb.specified_collision_partner
                        /\ tb.default_efficiency = 0
                        /\ tb.efficiencies = (S :> ONE)
                        /\ LessOne(R.reactants, TrialParse.R.reactants, S)
                        /\ LessOne(R.products, TrialParse.R.products, S)

\* "2 A + M <=> B + M" without a type becomes a three-body reaction with M
\* removed
C17_Witness ==
    /\ InferredThreeBody /\ hist.err = NoError
    /\ Shared(TrialParse.R) = {"M"}
    /\ R.rtype = "three-body"
    /\ R.reactants = ("A" :> 2 * ONE) /\ R.products = ("B" :> ONE)
    /\ ~R.m_third_body.specified_collision_partner

=============================================================================
